---- MODULE Spec2Model ----
(***************************************************************************)
(* Scan-lifecycle coordinator of the checkov-prismaless VS Code extension  *)
(* (src/src/extension.ts), with the process runner                         *)
(* (src/src/checkov/checkovRunner.ts) and the results cache                *)
(* (src/src/severityProvider.ts, utils section).                           *)
(*                                                                         *)
(* One scan is one call of startScan; scans are numbered in call order.    *)
(* The extension host is single threaded: an action is one macrotask       *)
(* (command, editor event, timer callback, process event) together with    *)
(* the microtasks (await continuations) it makes runnable.                 *)
(***************************************************************************)
EXTENDS Integers, Sequences, FiniteSets, TLC

\* ---- bounds of the model ----
MaxScans == 3               \* startScan calls explored
MaxPuts == 11               \* distinct hashes put into the results cache
MaxDay == 2                 \* calendar days explored

\* ---- program constants ----
maxCacheSizePerFile == 10

Docs == {"A", "B"}                \* supported documents (uri = file path)
Unsupported == "U"                \* a document of an unsupported type (.log)
Editors == Docs \cup {Unsupported}
NoUri == "none"                   \* fileUri === undefined
Limits == {1, 2}                  \* values of the maximumConcurrentScans setting (default 2)
NoCache == <<>>                   \* workspaceState key not set (undefined)
NoFile == [oldest |-> 0, elements |-> <<>>]
ScanIds == 1..MaxScans

VARIABLES
    activeScanTokens,   \* Seq of scan ids: the ActiveScan[] array, in push order
    nextScan,           \* id of the next startScan call
    scans,              \* scan -> its record (see NoScan), while the program still references it
    debPending,         \* lodash debounce: timerId !== undefined
    debArgs,            \* lodash debounce: lastArgs (scan id), 0 = none
    lastInvoked,        \* lodash debounce: result is the promise of this invocation, 0 = undefined
    activeEditor,       \* vscode.window.activeTextEditor.document
    MAX_CONCURRENT_SCANS,   \* getMaximumConcurrentScans(), read once by activate()
    extensionReady,
    installing,         \* install-or-update commands in flight
    checkovInstallation,
    fileHash,           \* doc -> hash of the file's current content
    cache,              \* workspaceState[CKV_CACHE_RESULTS]
    cacheDate,          \* workspaceState[CKV_CACHE_DATE], 0 = undefined
    today,              \* getDate()
    lastCall,           \* history: the scan of the latest call of the debounced runScan, until it is invoked
    lastStep,           \* history: what the step that led to this state showed the user
    closedEmpty,        \* history: the scan whose process the step saw exit 0 with output [], 0 = none
    notified,           \* history: the error notification of runScan's catch in the step:
                        \* "none" | "shown" | "suppressed" (shouldDisableErrorMessage())
    nextHash,           \* results cache on its own: the next hash not yet put
    lastOp,             \* results cache on its own: the last operation and what it returned
    versionCache,       \* checkovInstaller: the module variable versionCache
    clock,              \* Date.now(), in milliseconds
    call,               \* the installOrUpdateCheckov call in flight or last returned (see NoCall)
    nextCall,           \* id of the next installOrUpdateCheckov call
    lastResolve,        \* history: time and call of the latest network resolution of "latest"
                        \* issued since the last clearVersionCache()
    proc,               \* checkovRunner on its own: one runCheckovScan call (see NoProc)
    released,           \* install command: the scanner version behind the image tag latest
    globalState,        \* install command: context.globalState[checkovVersionKey], "none" = undefined
    installedScanner,   \* history: the version of the scanner the last completed command installed
    completed,          \* history: id of the installOrUpdateCheckov call whose command ran to
                        \* its end, and whether it ended in the try block (ok)
    mappings,           \* severity provider: this.mappings, check id -> severity
    cachedMappings,     \* severity provider: globalState[CACHE_KEY] (see NoCachedMappings)
    severityNow,        \* severity provider: the time of day, in hours
    severityPc,         \* severity provider: "idle", or "fallback" while loadMappings awaits
                        \* loadFallbackMappings
    loaded,             \* history: the last load of the mappings (see NoLoad)
    diagnostic,         \* history: the diagnostic applyDiagnostics built last (see NoDiagnostic)
    installation,       \* install command: the object the handler assigned to checkovInstallation
    pulled,             \* history: the image tag of the pull that produced installation
    lastUse,            \* history: the last use of a version of installation (see NoUse)
    statusBar,          \* the status bar item: "updating" | "scanning" | "ready" | "error" | "passed"
    startedBeforeClear  \* history: the runner invocations in flight that started before the
                        \* latest clearCache

runVars == <<debPending, debArgs, lastInvoked>>
envVars == <<activeEditor, MAX_CONCURRENT_SCANS, extensionReady, installing, checkovInstallation, fileHash, today>>
cacheVars == <<cache, cacheDate>>
histVars == <<lastCall, lastStep, closedEmpty, notified>>
cacheOpVars == <<nextHash, lastOp>>
installerVars == <<versionCache, clock, call, nextCall, lastResolve>>
runnerVars == <<proc>>
commandVars == <<released, globalState, installedScanner, completed>>
severityVars == <<mappings, cachedMappings, severityNow, severityPc, loaded>>
diagnosticVars == <<diagnostic>>
displayVars == <<installation, pulled, lastUse>>
statusVars == <<statusBar, startedBeforeClear>>
aloneVars == <<runnerVars, commandVars, severityVars, diagnosticVars, displayVars>>
vars == <<activeScanTokens, nextScan, scans, runVars, envVars, cacheVars, histVars, cacheOpVars,
          installerVars, aloneVars, statusVars>>

\* The record of a scan. cancelled, disposed and listener are the state of its
\* vscode.CancellationTokenSource (listener: the runner's onCancellationRequested
\* callback is registered); reason names who cancelled it first; awaiting is the
\* invocation whose promise its startScan awaits at `await runScan(...)`, 0 = none;
\* runner is "none" | "invoked" | "spawned" | "closed"; killed: the listener killed
\* the process; scanned: content hash the process read, 0 before it is spawned.
NoScan == [uri |-> NoUri, editorDoc |-> NoUri,
           cancelled |-> FALSE, disposed |-> FALSE, listener |-> FALSE, reason |-> "none",
           awaiting |-> 0, runner |-> "none", killed |-> FALSE, scanned |-> 0]

\* ---- Array helpers ----
\* activeScanTokens.findIndex(item => item.uri === documentUri), 1-based; 0 when absent
RECURSIVE findIndexFrom(_, _, _)
findIndexFrom(st, documentUri, i) ==
    IF i > Len(st.active) THEN 0
    ELSE IF st.scans[st.active[i]].uri = documentUri THEN i
    ELSE findIndexFrom(st, documentUri, i + 1)

findIndex(st, documentUri) == findIndexFrom(st, documentUri, 1)

\* Array.prototype.splice(index, 1)
splice(seq, i) == [j \in 1..(Len(seq) - 1) |-> IF j < i THEN seq[j] ELSE seq[j + 1]]

Range(seq) == {seq[i] : i \in 1..Len(seq)}

\* The bookkeeping state threaded through the synchronous helpers
Book == [active |-> activeScanTokens, scans |-> scans]

\* ---- vscode.CancellationTokenSource ----
\* faulty variant of tokenCancel: the cancellation is recorded but the flag is
\* never set and the listener never fires
tokenCancel_unset(st, s, why) ==
    [st EXCEPT !.scans[s].reason = why]

\* tokenSource.cancel(): sets the flag once; fires the listener, which is then dropped
tokenCancel(st, s, why) ==
    IF st.scans[s].cancelled THEN st
    ELSE [st EXCEPT !.scans[s].cancelled = TRUE,
                    !.scans[s].listener = FALSE,
                    !.scans[s].killed = st.scans[s].killed \/ st.scans[s].listener,
                    !.scans[s].reason = why]

\* tokenSource.dispose(): drops the listener without firing it
tokenDispose(st, s) ==
    [st EXCEPT !.scans[s].disposed = TRUE, !.scans[s].listener = FALSE]

\* ---- bookkeeping helpers of activate() ----
\* faulty variant of cancelScanForDocument: the prior entry of the uri is kept
cancelScanForDocument_keep(st, documentUri) == st

\* cancelScanForDocument: cancel, dispose and splice the first entry of the uri
cancelScanForDocument(st, documentUri) ==
    LET index == findIndex(st, documentUri) IN
    IF index = 0 THEN st
    ELSE LET scan == st.active[index]
             c == tokenDispose(tokenCancel(st, scan, "supersede"), scan)
         IN [c EXCEPT !.active = splice(st.active, index)]

\* removeScanToken: splice the first entry of the uri, disposing it unless cancelled
removeScanToken(st, documentUri) ==
    LET index == findIndex(st, documentUri) IN
    IF index = 0 THEN st
    ELSE LET scan == st.active[index]
             c == IF st.scans[scan].cancelled THEN st ELSE tokenDispose(st, scan)
         IN [c EXCEPT !.active = splice(st.active, index)]

\* cancelAllActiveScans: cancel and dispose every entry, then empty the array
RECURSIVE cancelEach(_, _, _)
cancelEach(st, seq, i) ==
    IF i > Len(seq) THEN st
    ELSE cancelEach(tokenDispose(tokenCancel(st, seq[i], "focus"), seq[i]), seq, i + 1)

cancelAllActiveScans(st) ==
    [cancelEach(st, st.active, 1) EXCEPT !.active = <<>>]

\* faulty variant of enforceLimit: pops the newest entry instead of shifting
\* the oldest
RECURSIVE enforceLimit_newest(_)
enforceLimit_newest(st) ==
    IF Len(st.active) > MAX_CONCURRENT_SCANS
    THEN LET newestScan == st.active[Len(st.active)]
             c == tokenDispose(tokenCancel(st, newestScan, "evict"), newestScan)
         IN enforceLimit_newest([c EXCEPT !.active = SubSeq(st.active, 1, Len(st.active) - 1)])
    ELSE st

\* the eviction loop of startScan: shift, cancel and dispose the oldest entry
\* while the array is longer than the limit
RECURSIVE enforceLimit(_)
enforceLimit(st) ==
    IF Len(st.active) > MAX_CONCURRENT_SCANS
    THEN LET oldestScan == Head(st.active)
             c == tokenDispose(tokenCancel(st, oldestScan, "evict"), oldestScan)
         IN enforceLimit([c EXCEPT !.active = Tail(st.active)])
    ELSE st

\* ---- results cache (utils) ----
\* c = [results, date]: the two workspaceState keys
Stored == [results |-> cache, date |-> cacheDate]
NoEntry == [fileHash |-> 0]

\* faulty variant of validateCacheExpiration: a stale stamp is renewed and the
\* stored entries are kept
validateCacheExpiration_keep(c, day) ==
    IF c.date # day /\ c.results # NoCache THEN [c EXCEPT !.date = day]
    ELSE IF c.date # day THEN [results |-> [f \in Editors |-> NoFile], date |-> day]
    ELSE c

\* validateCacheExpiration: a stamp other than today's wipes the whole cache
validateCacheExpiration(c, day) ==
    IF c.date # day
    THEN [results |-> [f \in Editors |-> NoFile], date |-> day]
    ELSE c

\* findSavedScanForFile: elements.find(e => e.fileHash === fileHash && e.filename === filename)
RECURSIVE findFrom(_, _, _)
findFrom(elements, h, i) ==
    IF i > Len(elements) THEN NoEntry
    ELSE IF elements[i].fileHash = h THEN elements[i]
    ELSE findFrom(elements, h, i + 1)

findSavedScanForFile(h, fileCache) == findFrom(fileCache.elements, h, 1)

\* faulty variant of fileCacheContainsEntry: no entry is ever found
fileCacheContainsEntry_never(h, fileCache) == FALSE

fileCacheContainsEntry(h, fileCache) == findSavedScanForFile(h, fileCache) # NoEntry

\* faulty variant of addSavedScanForFile: a full buffer takes no new element
addSavedScanForFile_dropFull(element, fileCache) ==
    IF Len(fileCache.elements) < maxCacheSizePerFile
    THEN [fileCache EXCEPT !.elements = Append(@, element)]
    ELSE fileCache

\* faulty variant of addSavedScanForFile: a full buffer overwrites its last
\* slot, so the newest element is the one evicted
addSavedScanForFile_lastSlot(element, fileCache) ==
    IF Len(fileCache.elements) < maxCacheSizePerFile
    THEN [fileCache EXCEPT !.elements = Append(@, element)]
    ELSE [fileCache EXCEPT !.elements[Len(fileCache.elements)] = element]

\* addSavedScanForFile: append below capacity, else overwrite at the cursor
addSavedScanForFile(element, fileCache) ==
    IF Len(fileCache.elements) < maxCacheSizePerFile
    THEN [fileCache EXCEPT !.elements = Append(@, element)]
    ELSE LET next == fileCache.oldest + 1 IN
         [oldest |-> IF next = Len(fileCache.elements) THEN 0 ELSE next,
          elements |-> [fileCache.elements EXCEPT ![fileCache.oldest + 1] = element]]

\* getCachedResults, the lookup (after validation)
getCachedResults(c, h, filename) ==
    IF c.results = NoCache THEN NoEntry
    ELSE findSavedScanForFile(h, c.results[filename])

\* saveCachedResults, the insert (after validation)
saveCachedResults(c, h, filename, results) ==
    IF c.results = NoCache THEN c
    ELSE IF fileCacheContainsEntry(h, c.results[filename]) THEN c
    ELSE [c EXCEPT !.results[filename] =
              addSavedScanForFile([fileHash |-> h, results |-> results], @)]

\* workspaceState with neither key set
NoState == [results |-> NoCache, date |-> 0]

\* faulty variant of clearCache: the keys are left as they are
clearCache_kept == Stored

\* clearCache: both keys removed
clearCache == NoState

\* ---- checkovRunner.ts ----
\* The record of one runCheckovScan call after spawn. stdout: the chunks kept in
\* the variable stdout, in order; cancelled: cancelToken.isCancellationRequested;
\* settled: "pending" | "resolved" | "rejected"; code: the exit code of the
\* close event; value: what the promise resolved with, "none" | "noFindings"
\* (failedChecks: []) | "findings" (parseCheckovResponse of the payload);
\* received: history, every chunk the data events delivered, in order.
NoProc == [stdout |-> <<>>, cancelled |-> FALSE, settled |-> "pending", code |-> 0,
           value |-> "none", received |-> <<>>]

\* no diagnostic built so far. checkId, severity: the finding's check id and
\* its own severity ("none": it has none); severityString: what the message
\* prefix shows; vsSeverity: the vscode.DiagnosticSeverity
NoDiagnostic == [checkId |-> "none", severity |-> "none", severityString |-> "none",
                 vsSeverity |-> "none"]

\* globalState[CACHE_KEY] undefined
NoCachedMappings == [data |-> <<>>, expires_at |-> -1]

\* no load of the severity mappings so far
NoLoad == [op |-> "none", failure |-> "none", source |-> "none", bundled |-> <<>>, threw |-> FALSE]

\* ---- checkovInstaller.ts ----
VERSION_CACHE_TTL == 1000 * 60 * 60

\* versionCache === null
NoVersion == [version |-> "none", resolvedVersion |-> "none", timestamp |-> 0 - 1]

\* no installation: the strategy returned null
NoInstallation == [checkovInstallationMethod |-> "none", checkovPath |-> "none",
                   version |-> "none", actualVersion |-> "none"]

\* The record of an installOrUpdateCheckov call. pc is its position: "idle" (no
\* call yet), "resolving" (resolveCheckovVersion awaits its docker commands),
\* "pull" (docker pull of the resolved tag), "fallback" (docker pull of latest
\* after that failed), "pip3", "pip" (second try of the pip3 strategy),
\* "pipenv", "probe" (checkov --version), "returned", "thrown".
\* requested: checkovVersion; version, resolvedVersion, now: the locals of
\* resolveCheckovVersion and installOrUpdateCheckovWithDocker; tried: the
\* strategies started so far, in order; failed: those that returned null;
\* execs: network or subprocess calls issued by resolveCheckovVersion;
\* cacheRead, cacheWritten: resolveCheckovVersion read / assigned versionCache;
\* fellBack: the pull of the resolved tag failed and the pull of latest succeeded;
\* result: the installation returned; attempts: the pip executables the passes
\* of the loop of installOrUpdateCheckovWithPip3 used, in order.
NoCall == [id |-> 0, pc |-> "idle", requested |-> "none", version |-> "none",
           resolvedVersion |-> "none", now |-> 0, tried |-> <<>>, failed |-> {},
           execs |-> 0, cacheRead |-> FALSE, cacheWritten |-> FALSE, fellBack |-> FALSE,
           result |-> NoInstallation, attempts |-> <<>>]

\* no version of the installation used so far. where: "status" the status bar
\* item, "about" the message of GET_INSTALLATION_DETAILS_COMMAND, "run" the
\* image tag of a docker run; text: the version shown or used
NoUse == [where |-> "none", text |-> "none"]

NoResolve == [time |-> 0 - 1, call |-> 0]

\* the record of a cache operation: op is "none" | "put" | "get" | "clear" | "day";
\* h, p, f its hash, path and findings; result what get returned. fresh: for a
\* put, get returned no entry for (h, p) before it; for a get, the step before
\* was a fresh put of (h, p), whose findings are then kept in f. wiped: the
\* validation of a put or get found a stale stamp and dropped stored entries,
\* or a clear dropped stored entries
NoFindings == [id |-> 0, day |-> 0]
NoOp == [op |-> "none", h |-> 0, p |-> NoUri, f |-> NoFindings, fresh |-> FALSE,
         wiped |-> FALSE, result |-> NoEntry]

\* ---- lodash debounce(runScan, 100, {}) ----
\* faulty variant of debounceArgs: a call inside the window keeps the
\* arguments of the window's first call
debounceArgs_first(pending, args, s) == IF pending THEN args ELSE s

\* debounced(...args): lastArgs = args; the trailing edge invokes with lastArgs
debounceArgs(pending, args, s) == s

\* the value the debounced call returns is result, the promise of the last
\* invocation: awaiting it suspends startScan only while that invocation has not
\* settled (lastInvoked is reset to 0 when it settles; awaiting undefined and
\* awaiting a settled promise both resume in a microtask)
resultPending == lastInvoked # 0

\* ---- history records ----
\* lastStep, what the step that led to a state showed the user:
\* "cacheHit" startScan projected cached findings; "applied" runScan projected the
\* runner's findings; "error" runScan showed the error status and notification;
\* "passed" runScan showed the passed status for no findings; "cancelled" the
\* catch of runScan returned silently for a cancelled token; "other" none of these.

\* scans whose Process Runner invocation is pending (debounced) or running
Pending(s) == debPending /\ debArgs = s
Running(s) == scans[s].runner \in {"invoked", "spawned"}

\* ---- initial state: activate() has run, the first install is in flight ----
\* the results cache is workspace state that outlives a session
WarmCache == [results |-> [f \in Editors |->
                 IF f = "A"
                 THEN [oldest |-> 0,
                       elements |-> <<[fileHash |-> 1, results |-> [file |-> "A", content |-> 1]]>>]
                 ELSE NoFile],
              date |-> 1]

Init ==
    /\ activeScanTokens = <<>>
    /\ nextScan = 1
    /\ scans = [s \in ScanIds |-> NoScan]
    /\ debPending = FALSE
    /\ debArgs = 0
    /\ lastInvoked = 0
    /\ activeEditor \in Editors
    /\ MAX_CONCURRENT_SCANS \in Limits
    /\ extensionReady = FALSE
    /\ installing = 1
    /\ checkovInstallation = "null"
    /\ fileHash = [d \in Docs |-> 1]
    /\ today = 1
    /\ \E c \in {NoState, WarmCache} : cache = c.results /\ cacheDate = c.date
    /\ lastCall = 0
    /\ lastStep = "other"
    /\ closedEmpty = 0
    /\ notified = "none"
    /\ versionCache = NoVersion
    /\ clock = 0
    /\ call = NoCall
    /\ nextCall = 1
    /\ lastResolve = NoResolve
    /\ proc = NoProc
    /\ released = "3.0.0"
    /\ globalState = "none"
    /\ installedScanner = "none"
    /\ completed = [id |-> 0, ok |-> FALSE]
    /\ mappings = <<>>
    /\ cachedMappings = NoCachedMappings
    /\ severityNow = 0
    /\ severityPc = "idle"
    /\ loaded = NoLoad
    /\ diagnostic = NoDiagnostic
    /\ installation = NoInstallation
    /\ pulled = "none"
    /\ lastUse = NoUse
    /\ statusBar = "updating"
    /\ startedBeforeClear = {}
    /\ nextHash = 1
    /\ lastOp = NoOp

\* End of a step. The record of a scan is dropped once the program holds no
\* reference to it that it will ever use: no entry in activeScanTokens, no
\* startScan awaiting, no pending debounced call, no runner in progress. (The
\* timeout timer still holds its token; cancelling that token changes nothing.)
Commit(st, pend, args) ==
    LET ref(s) == \/ s \in Range(st.active)
                  \/ st.scans[s].awaiting # 0
                  \/ pend /\ args = s
                  \/ st.scans[s].runner \in {"invoked", "spawned"}
    IN /\ activeScanTokens' = st.active
       /\ scans' = [s \in ScanIds |-> IF ref(s) THEN st.scans[s] ELSE NoScan]
       /\ debPending' = pend
       /\ debArgs' = args

SetCache(c) ==
    /\ cache' = c.results
    /\ cacheDate' = c.date

\* { results: { failedChecks: [] } }: the findings of the output []
noFailedChecks == [file |-> NoUri, content |-> 0]

\* handleScanResults: setErrorStatusBarItem when there are findings, else
\* setPassedStatusBarItem
statusOfResults(checkovFails) == IF checkovFails = noFailedChecks THEN "passed" ELSE "error"

\* ---- startScan(fileUri, useCache = true), called by RUN_FILE_SCAN_COMMAND ----
\* its first statement executes REMOVE_DIAGNOSTICS_COMMAND, which shows the ready status
\* editor: the active editor's document; c: the cache keys as the caller left them
startScan(editor, fileUri, readable, c) ==
    IF fileUri = NoUri /\ editor = Unsupported
    THEN /\ Commit(Book, debPending, debArgs)
         /\ SetCache(c)
         /\ lastStep' = "other"
         /\ statusBar' = "ready"
         /\ UNCHANGED <<nextScan, lastInvoked, lastCall>>
    ELSE
    LET s == nextScan
        documentUri == IF fileUri # NoUri THEN fileUri ELSE editor
        st0 == [Book EXCEPT !.scans[s] = [NoScan EXCEPT !.uri = documentUri, !.editorDoc = editor]]
        st1 == cancelScanForDocument(st0, documentUri)
        st2 == [st1 EXCEPT !.active = Append(@, s)]
        st3 == enforceLimit(st2)
        hash == fileHash[documentUri]
        validated == validateCacheExpiration(c, today)
        cachedResults == getCachedResults(validated, hash, editor)
        removed == removeScanToken(st3, documentUri)
    IN
    /\ nextScan <= MaxScans
    /\ nextScan' = s + 1
    /\ UNCHANGED lastInvoked
    /\ IF ~readable
       THEN \* getFileHash throws
            /\ Commit(removed, debPending, debArgs)
            /\ SetCache(c)
            /\ lastStep' = "other"
            /\ statusBar' = "ready"
            /\ UNCHANGED lastCall
       ELSE IF cachedResults # NoEntry
       THEN \* handleScanResults on the cached findings
            /\ Commit(removed, debPending, debArgs)
            /\ SetCache(saveCachedResults(validated, hash, editor, cachedResults.results))
            /\ lastStep' = "cacheHit"
            /\ statusBar' = statusOfResults(cachedResults.results)
            /\ UNCHANGED lastCall
       ELSE \* await runScan(...) finally removeScanToken(documentUri)
            /\ SetCache(validated)
            /\ lastCall' = s
            /\ lastStep' = "other"
            /\ statusBar' = "ready"
            /\ IF resultPending
               THEN Commit([st3 EXCEPT !.scans[s].awaiting = lastInvoked],
                           TRUE, debounceArgs(debPending, debArgs, s))
               ELSE Commit(removed, TRUE, debounceArgs(debPending, debArgs, s))

\* ---- commands and editor events ----
\* INSTALL_OR_UPDATE_CHECKOV_COMMAND, from the end of installOrUpdateCheckov on:
\* version compare, clearCache on a new version, ready, scan of the active editor
InstallDone(versionChanged, readable) ==
    /\ installing > 0
    /\ UNCHANGED <<cacheOpVars, installerVars, aloneVars>>
    /\ closedEmpty' = 0
    /\ notified' = "none"
    /\ installing' = installing - 1
    /\ checkovInstallation' = "installed"
    /\ extensionReady' = TRUE
    /\ UNCHANGED <<activeEditor, MAX_CONCURRENT_SCANS, fileHash, today>>
    /\ startedBeforeClear' = IF versionChanged THEN {k \in ScanIds : Running(k)}
                             ELSE startedBeforeClear
    /\ LET c == IF versionChanged THEN clearCache ELSE Stored IN
       IF activeEditor \in Docs
       THEN startScan(activeEditor, NoUri, readable, c)
       ELSE /\ SetCache(c)
            /\ Commit(Book, debPending, debArgs)
            /\ lastStep' = "other"
            /\ statusBar' = "ready"
            /\ UNCHANGED <<nextScan, lastInvoked, lastCall>>

\* the same command when getCheckovVersion or installOrUpdateCheckov throws
InstallFail ==
    /\ installing > 0
    /\ UNCHANGED <<cacheOpVars, installerVars, aloneVars>>
    /\ closedEmpty' = 0
    /\ notified' = "none"
    /\ installing' = installing - 1
    /\ lastStep' = "other"
    /\ statusBar' = "error"
    /\ UNCHANGED startedBeforeClear
    /\ UNCHANGED <<activeEditor, MAX_CONCURRENT_SCANS, extensionReady, checkovInstallation, fileHash, today>>
    /\ UNCHANGED <<activeScanTokens, nextScan, scans, runVars, cacheVars, lastCall>>

\* RUN_FILE_SCAN_COMMAND(fileUri?), also what onDidSaveTextDocument executes
RunFileScanCommand(fileUri, readable) ==
    /\ extensionReady
    /\ UNCHANGED <<cacheOpVars, installerVars, aloneVars>>
    /\ closedEmpty' = 0
    /\ notified' = "none"
    /\ startScan(activeEditor, fileUri, readable, Stored)
    /\ UNCHANGED <<envVars, startedBeforeClear>>

\* onDidChangeActiveTextEditor
ChangeActiveTextEditor(d, readable) ==
    /\ d # activeEditor
    /\ UNCHANGED <<cacheOpVars, installerVars, aloneVars>>
    /\ closedEmpty' = 0
    /\ notified' = "none"
    /\ activeEditor' = d
    /\ UNCHANGED <<MAX_CONCURRENT_SCANS, extensionReady, installing, checkovInstallation, fileHash, today>>
    /\ UNCHANGED startedBeforeClear
    /\ IF ~extensionReady
       THEN /\ lastStep' = "other"
            /\ UNCHANGED <<activeScanTokens, nextScan, scans, runVars, cacheVars, lastCall, statusBar>>
       ELSE IF d = Unsupported
       THEN LET st == cancelAllActiveScans(Book) IN
            /\ Commit(st, debPending, debArgs)
            /\ lastStep' = "other"
            /\ statusBar' = "ready"
            /\ UNCHANGED <<nextScan, lastInvoked, lastCall, cacheVars>>
       ELSE startScan(d, NoUri, readable, Stored)

\* the timeout timer of startScan: cancels unless already cancelled
Timeout(s) ==
    /\ scans[s].uri # NoUri
    /\ UNCHANGED <<cacheOpVars, installerVars, aloneVars>>
    /\ closedEmpty' = 0
    /\ notified' = "none"
    /\ ~scans[s].cancelled
    /\ LET st == tokenCancel(Book, s, "timeout") IN
       /\ Commit(st, debPending, debArgs)
       /\ lastStep' = "other"
    /\ UNCHANGED <<nextScan, lastInvoked, lastCall, envVars, cacheVars, statusVars>>

\* ---- runScan: the debounced function ----
\* the debounce timer expires: trailingEdge invokes runScan with lastArgs,
\* which runs up to its first await (runCheckovScan, waiting for getGitRepoName)
DebounceFire ==
    /\ debPending
    /\ UNCHANGED <<cacheOpVars, installerVars, aloneVars>>
    /\ closedEmpty' = 0
    /\ notified' = "none"
    /\ IF checkovInstallation = "null"
       THEN \* 'Checkov is not installed, aborting scan.': settles at once
            /\ Commit(Book, FALSE, 0)
            /\ lastInvoked' = 0
       ELSE /\ Commit([Book EXCEPT !.scans[debArgs].runner = "invoked"], FALSE, 0)
            /\ lastInvoked' = debArgs
    /\ lastCall' = 0
    /\ lastStep' = "other"
    /\ statusBar' = "scanning"
    /\ UNCHANGED <<nextScan, envVars, cacheVars, startedBeforeClear>>

\* runCheckovScan after getGitRepoName: spawn, and cancelToken.onCancellationRequested
\* (a token already cancelled calls the listener at once)
Spawn(k) ==
    /\ scans[k].runner = "invoked"
    /\ UNCHANGED <<cacheOpVars, installerVars, aloneVars>>
    /\ closedEmpty' = 0
    /\ notified' = "none"
    /\ Commit([Book EXCEPT !.scans[k].runner = "spawned",
                           !.scans[k].scanned = fileHash[scans[k].uri],
                           !.scans[k].killed = scans[k].killed \/ scans[k].cancelled,
                           !.scans[k].listener = ~scans[k].cancelled],
              debPending, debArgs)
    /\ lastStep' = "other"
    /\ UNCHANGED <<nextScan, lastInvoked, lastCall, envVars, cacheVars, statusVars>>

\* the contents in which the scanner finds nothing: its output for them is []
\* (the scanner's output is a function of the content it read)
Clean == {2}

\* faulty variant of closeRejects: the close handler does not look at the token
closeRejects_exit(cancelled, outcome) == outcome = "fail"

\* the close handler of runCheckovScan rejects: 'Cancel invoked' for a cancelled
\* token, whatever the exit code and the output, else for a failure
closeRejects(cancelled, outcome) == cancelled \/ outcome = "fail"

\* faulty variant of catchOfRunScan: the token is not looked at
catchOfRunScan_loud(cancelled, disableErrorMessage) ==
    [step |-> "error", notified |-> IF disableErrorMessage THEN "suppressed" ELSE "shown"]

\* the catch block of runScan: silent for a cancelled token, else the error
\* status, and the notification unless shouldDisableErrorMessage()
catchOfRunScan(cancelled, disableErrorMessage) ==
    IF cancelled THEN [step |-> "cancelled", notified |-> "none"]
    ELSE [step |-> "error", notified |-> IF disableErrorMessage THEN "suppressed" ELSE "shown"]

\* faulty variant of removeWaiters: the finally blocks remove nothing
removeWaiters_none(st, k, s) == st

\* the finally blocks of the startScan calls awaiting invocation k, in call order
RECURSIVE removeWaiters(_, _, _)
removeWaiters(st, k, s) ==
    IF s > MaxScans THEN st
    ELSE removeWaiters(IF st.scans[s].awaiting = k
                       THEN [removeScanToken(st, st.scans[s].uri) EXCEPT !.scans[s].awaiting = 0]
                       ELSE st,
                       k, s + 1)

\* the close event of the scanner process, the rest of runScan, and the
\* continuations of the startScan calls awaiting this invocation
\* outcome: "ok" exit 0 and parseable output with findings; "empty" exit 0 and
\* the output []; "fail" non-zero exit or unparseable
RunnerClose(k, outcome) ==
    /\ scans[k].runner = "spawned"
    /\ UNCHANGED <<cacheOpVars, installerVars, aloneVars>>
    /\ outcome = "ok" => scans[k].scanned \notin Clean
    /\ outcome = "empty" => scans[k].scanned \in Clean
    /\ closedEmpty' = IF outcome = "empty" THEN k ELSE 0
    /\ Commit(removeWaiters([Book EXCEPT !.scans[k].runner = "closed"], k, 1),
              debPending, debArgs)
    /\ lastInvoked' = IF lastInvoked = k THEN 0 ELSE lastInvoked
    /\ IF closeRejects(scans[k].cancelled, outcome)
       THEN \* reject('Cancel invoked') or another rejection: the catch of runScan
            /\ \E disableErrorMessage \in BOOLEAN :
                 LET c == catchOfRunScan(scans[k].cancelled, disableErrorMessage) IN
                 /\ lastStep' = c.step /\ notified' = c.notified
                 /\ statusBar' = IF c.step = "error" THEN "error" ELSE statusBar
            /\ UNCHANGED cacheVars
       ELSE \* handleScanResults: the findings, or failedChecks: [] for the output []
            /\ lastStep' = IF outcome = "empty" THEN "passed" ELSE "applied"
            /\ statusBar' = IF outcome = "empty" THEN "passed" ELSE "error"
            /\ notified' = "none"
            /\ SetCache(saveCachedResults(validateCacheExpiration(Stored, today),
                            fileHash[scans[k].uri], scans[k].editorDoc,
                            IF outcome = "empty" THEN noFailedChecks
                            ELSE [file |-> scans[k].uri, content |-> scans[k].scanned]))
    /\ startedBeforeClear' = startedBeforeClear \ {k}
    /\ UNCHANGED <<nextScan, lastCall, envVars>>

Next ==
    \/ \E v \in BOOLEAN, r \in BOOLEAN : InstallDone(v, r)
    \/ InstallFail
    \/ \E r \in BOOLEAN : RunFileScanCommand(NoUri, r)
    \/ \E d \in Editors, r \in BOOLEAN : ChangeActiveTextEditor(d, r)
    \/ \E s \in ScanIds : Timeout(s)
    \/ DebounceFire
    \/ \E k \in ScanIds : Spawn(k)
    \/ \E k \in ScanIds, o \in {"ok", "fail"} : RunnerClose(k, o)

Spec == Init /\ [][Next]_vars

\* The process events are delivered: a runner that was invoked spawns its
\* process, and a spawned process (killed or not) closes.
Fairness ==
    /\ WF_vars(\E k \in ScanIds : Spawn(k))
    /\ WF_vars(\E k \in ScanIds, o \in {"ok", "fail"} : RunnerClose(k, o))

FairSpec == Spec /\ Fairness

\* ---- the coordinator with files that change on disk and the scanner output [] ----
Contents == {1, 2}                \* hashes of the contents a file takes

\* the file of document d is written: the editor's save (onDidSaveTextDocument
\* then executes RUN_FILE_SCAN_COMMAND as a later task) or any other program
WriteFile(d, h) ==
    /\ fileHash[d] # h
    /\ fileHash' = [fileHash EXCEPT ![d] = h]
    /\ lastStep' = "other"
    /\ closedEmpty' = 0
    /\ notified' = "none"
    /\ UNCHANGED <<activeEditor, MAX_CONCURRENT_SCANS, extensionReady, installing, checkovInstallation, today>>
    /\ UNCHANGED <<activeScanTokens, nextScan, scans, runVars, cacheVars, lastCall, cacheOpVars,
                   installerVars, aloneVars, statusVars>>

ContentInit ==
    /\ Init
    /\ MAX_CONCURRENT_SCANS = 2
    /\ cache = NoCache

ContentNext ==
    \/ Next
    \/ \E k \in ScanIds : RunnerClose(k, "empty")
    \/ \E d \in Docs, h \in Contents : WriteFile(d, h)

ContentSpec == ContentInit /\ [][ContentNext]_vars

\* ---- the results cache on its own: getCachedResults, saveCachedResults, ----
\* ---- clearCache applied to hashes, paths and findings drawn by the caller ----
idleVars == <<activeScanTokens, nextScan, scans, runVars, activeEditor, MAX_CONCURRENT_SCANS,
              extensionReady, installing, checkovInstallation, fileHash, histVars, installerVars,
              aloneVars, statusVars>>

\* what getCachedResults(context, h, p) returns on the stored keys c on day `day`
cachedEntry(c, day, h, p) == getCachedResults(validateCacheExpiration(c, day), h, p)

\* the stored keys after saveCachedResults(context, h, p, f) on c on day `day`
put(c, day, h, p, f) == saveCachedResults(validateCacheExpiration(c, day), h, p, f)

\* the entries kept for path p, in slot order
elementsOf(p) == IF cache = NoCache THEN <<>> ELSE cache[p].elements

\* entries are stored under a stamp that is not today's
staleEntries == cacheDate # today /\ \E p \in Docs : elementsOf(p) # <<>>

CacheInit ==
    /\ Init
    /\ activeEditor = "A"
    /\ MAX_CONCURRENT_SCANS = 2
    /\ cache = NoCache

\* saveCachedResults(context, h, p, f). A hash is either new (hashes are numbered
\* in the order of their first put) or one that get still returns for p; the
\* findings of a new hash name the hash and the day, those of a repeated put differ
CachePut(h, p) ==
    LET seen == cachedEntry(Stored, today, h, p) # NoEntry
        f == IF h = nextHash THEN [id |-> h, day |-> today] ELSE [id |-> 0, day |-> today]
    IN /\ h <= MaxPuts
       /\ h = nextHash \/ seen
       /\ SetCache(put(Stored, today, h, p, f))
       /\ nextHash' = IF h = nextHash THEN nextHash + 1 ELSE nextHash
       /\ lastOp' = [op |-> "put", h |-> h, p |-> p, f |-> f, fresh |-> ~seen,
                     wiped |-> staleEntries, result |-> NoEntry]
       /\ UNCHANGED <<idleVars, today>>

\* getCachedResults(context, h, p)
CacheGet(h, p) ==
    LET validated == validateCacheExpiration(Stored, today)
        after == lastOp.op = "put" /\ lastOp.fresh /\ lastOp.h = h /\ lastOp.p = p
    IN /\ SetCache(validated)
       /\ lastOp' = [op |-> "get", h |-> h, p |-> p,
                     f |-> IF after THEN lastOp.f ELSE NoFindings,
                     fresh |-> after,
                     wiped |-> staleEntries,
                     result |-> getCachedResults(validated, h, p)]
       /\ UNCHANGED <<idleVars, today, nextHash>>

\* clearCache(context): CLEAR_RESULTS_CACHE, and a new scanner version
CacheClear ==
    /\ SetCache(clearCache)
    /\ lastOp' = [NoOp EXCEPT !.op = "clear", !.wiped = \E p \in Docs : elementsOf(p) # <<>>]
    /\ UNCHANGED <<idleVars, today, nextHash>>

\* local midnight passes: getDate() returns the next day
DayRollover ==
    /\ today < MaxDay
    /\ today' = today + 1
    /\ lastOp' = [NoOp EXCEPT !.op = "day"]
    /\ UNCHANGED <<idleVars, cacheVars, nextHash>>

\* the hashes the caller draws: the first one, the latest one, and for a put a new one
OldHashes == {1, nextHash - 1} \cap (1..(nextHash - 1))

CacheNext ==
    \/ \E h \in OldHashes \cup {nextHash}, p \in Docs : CachePut(h, p)
    \/ \E h \in OldHashes, p \in Docs : CacheGet(h, p)
    \/ CacheClear
    \/ DayRollover

CacheSpec == CacheInit /\ [][CacheNext]_vars

\* ---- installOrUpdateCheckov on its own: the calls come one after another, ----
\* ---- the outcome of each docker, pip and pipenv command is drawn            ----
MaxCalls == 3                     \* installOrUpdateCheckov calls explored
MaxTicks == 3                     \* clock ticks explored
Tick == VERSION_CACHE_TTL \div 2  \* the clock advances by half an hour
Requested == {"latest", "2.5.0"}  \* values of the checkovVersion setting
Discovered == {"3.0.0"}           \* what `checkov -v` of the latest image prints

coordVars == <<activeScanTokens, nextScan, scans, runVars, envVars, cacheVars, histVars, cacheOpVars,
               aloneVars, statusVars>>

\* the strategies of installOrUpdateCheckov in the order of its statements
strategies == <<"docker", "pip3", "pipenv", "global">>

\* faulty variant of nextStrategy: pipenv is tried before pip3
nextStrategy_swapped(s) ==
    CASE s = "docker" -> "pipenv"
      [] s = "pipenv" -> "pip3"
      [] s = "pip3" -> "global"
      [] OTHER -> "none"

\* the strategy installOrUpdateCheckov turns to when strategy s returned null
nextStrategy(s) ==
    CASE s = "docker" -> "pip3"
      [] s = "pip3" -> "pipenv"
      [] s = "pipenv" -> "global"
      [] OTHER -> "none"

\* strategy s of call c returned null (or false): the next one starts, or the call throws
strategyFailed(c, s) ==
    IF nextStrategy(s) = "none"
    THEN [c EXCEPT !.failed = @ \cup {s}, !.pc = "thrown"]
    ELSE [c EXCEPT !.failed = @ \cup {s}, !.pc = nextStrategy(s),
                   !.tried = Append(@, nextStrategy(s))]

\* call c returns installation inst
returned(c, inst) == [c EXCEPT !.pc = "returned", !.result = inst]

\* faulty variant of resolveCheckovVersion: every request goes through the cache
resolveCheckovVersion_cached(requestedVersion, vc, now) ==
    IF vc # NoVersion /\ now - vc.timestamp < VERSION_CACHE_TTL
    THEN [settled |-> TRUE, version |-> vc.version, resolvedVersion |-> vc.resolvedVersion,
          cacheRead |-> TRUE]
    ELSE [settled |-> FALSE, version |-> "none", resolvedVersion |-> "none", cacheRead |-> TRUE]

\* faulty variant of resolveCheckovVersion: an entry exactly one hour old is reused
resolveCheckovVersion_inclusive(requestedVersion, vc, now) ==
    IF requestedVersion # "latest"
    THEN [settled |-> TRUE, version |-> requestedVersion, resolvedVersion |-> requestedVersion,
          cacheRead |-> FALSE]
    ELSE IF vc # NoVersion /\ now - vc.timestamp <= VERSION_CACHE_TTL
    THEN [settled |-> TRUE, version |-> vc.version, resolvedVersion |-> vc.resolvedVersion,
          cacheRead |-> TRUE]
    ELSE [settled |-> FALSE, version |-> "none", resolvedVersion |-> "none", cacheRead |-> TRUE]

\* resolveCheckovVersion up to its first await: settled when it returns without one
resolveCheckovVersion(requestedVersion, vc, now) ==
    IF requestedVersion # "latest"
    THEN [settled |-> TRUE, version |-> requestedVersion, resolvedVersion |-> requestedVersion,
          cacheRead |-> FALSE]
    ELSE IF vc # NoVersion /\ now - vc.timestamp < VERSION_CACHE_TTL
    THEN [settled |-> TRUE, version |-> vc.version, resolvedVersion |-> vc.resolvedVersion,
          cacheRead |-> TRUE]
    ELSE [settled |-> FALSE, version |-> "none", resolvedVersion |-> "none", cacheRead |-> TRUE]

\* the installation installOrUpdateCheckovWithDocker returns after a successful pull
dockerInstallation(version, resolvedVersion) ==
    [checkovInstallationMethod |-> "docker", checkovPath |-> "docker",
     version |-> resolvedVersion, actualVersion |-> version]

\* faulty variant of fallbackInstallation: the display version is the run tag
fallbackInstallation_latest(version) ==
    [checkovInstallationMethod |-> "docker", checkovPath |-> "docker",
     version |-> "latest", actualVersion |-> "latest"]

\* the installation returned when the pull of latest succeeded after the pull
\* of the resolved tag failed
fallbackInstallation(version) ==
    [checkovInstallationMethod |-> "docker", checkovPath |-> "docker",
     version |-> "latest", actualVersion |-> version]

\* the installations of the pip3 and pipenv strategies and of the global probe
pathInstallation(method, checkovPath) ==
    [checkovInstallationMethod |-> method, checkovPath |-> checkovPath,
     version |-> "none", actualVersion |-> "none"]

\* installOrUpdateCheckov(logger, installationDir, checkovVersion) is called:
\* installOrUpdateCheckovWithDocker, resolveCheckovVersion up to its first await
InstallOrUpdateCheckov(checkovVersion) ==
    /\ call.pc \in {"idle", "returned", "thrown"}
    /\ nextCall <= MaxCalls
    /\ LET r == resolveCheckovVersion(checkovVersion, versionCache, clock) IN
       /\ call' = [NoCall EXCEPT !.id = nextCall, !.requested = checkovVersion,
                                 !.now = clock, !.tried = <<"docker">>,
                                 !.pc = IF r.settled THEN "pull" ELSE "resolving",
                                 !.version = r.version, !.resolvedVersion = r.resolvedVersion,
                                 !.cacheRead = r.cacheRead,
                                 !.execs = IF r.settled THEN 0 ELSE 1]
       /\ lastResolve' = IF r.settled THEN lastResolve ELSE [time |-> clock, call |-> nextCall]
    /\ nextCall' = nextCall + 1
    /\ UNCHANGED <<versionCache, clock, coordVars>>

\* faulty variant of Resolved: the fallback of a failed resolution is cached
Resolved_cached(outcome, v, hasDockerTag) ==
    /\ call.pc = "resolving"
    /\ LET version == IF outcome = "ok" THEN v ELSE "latest"
           resolvedVersion == IF outcome = "ok" /\ hasDockerTag THEN v ELSE "latest" IN
       /\ versionCache' = [version |-> version, resolvedVersion |-> resolvedVersion,
                           timestamp |-> call.now]
       /\ call' = [call EXCEPT !.pc = "pull", !.version = version,
                               !.resolvedVersion = resolvedVersion,
                               !.cacheWritten = outcome = "ok",
                               !.execs = CASE outcome = "pull" -> 1 [] outcome = "run" -> 2
                                           [] OTHER -> 3]
    /\ UNCHANGED <<clock, nextCall, lastResolve, coordVars>>

\* the rest of resolveCheckovVersion: docker pull of latest, docker run -v,
\* checkVersionHasDockerTag. outcome: "pull" the pull threw, "run" the run threw, "ok"
Resolved(outcome, v, hasDockerTag) ==
    /\ call.pc = "resolving"
    /\ IF outcome = "ok"
       THEN LET resolvedVersion == IF hasDockerTag THEN v ELSE "latest" IN
            /\ versionCache' = [version |-> v, resolvedVersion |-> resolvedVersion,
                                timestamp |-> call.now]
            /\ call' = [call EXCEPT !.pc = "pull", !.version = v,
                                    !.resolvedVersion = resolvedVersion,
                                    !.cacheWritten = TRUE, !.execs = 3]
       ELSE /\ UNCHANGED versionCache
            /\ call' = [call EXCEPT !.pc = "pull", !.version = "latest",
                                    !.resolvedVersion = "latest",
                                    !.execs = IF outcome = "pull" THEN 1 ELSE 2]
    /\ UNCHANGED <<clock, nextCall, lastResolve, coordVars>>

\* docker pull bridgecrew/checkov:${resolvedVersion} settles
DockerPull(ok) ==
    /\ call.pc = "pull"
    /\ call' = IF ok THEN returned(call, dockerInstallation(call.version, call.resolvedVersion))
               ELSE IF call.resolvedVersion # "latest" THEN [call EXCEPT !.pc = "fallback"]
               ELSE strategyFailed(call, "docker")
    /\ UNCHANGED <<versionCache, clock, nextCall, lastResolve, coordVars>>

\* docker pull bridgecrew/checkov:latest of the catch block settles
DockerPullLatest(ok) ==
    /\ call.pc = "fallback"
    /\ IF ok
       THEN /\ versionCache' = NoVersion
            /\ call' = [returned(call, fallbackInstallation(call.version)) EXCEPT !.fellBack = TRUE]
       ELSE /\ UNCHANGED versionCache
            /\ call' = strategyFailed(call, "docker")
    /\ UNCHANGED <<clock, nextCall, lastResolve, coordVars>>

\* faulty variant of Pip3: firstTry is never set to false
Pip3_retrying(ok) ==
    /\ call.pc \in {"pip3", "pip"}
    /\ \E c \in {[call EXCEPT !.attempts = Append(@, call.pc)]} :
           call' = IF ok THEN returned(c, pathInstallation("pip3", "user"))
                   ELSE [c EXCEPT !.pc = "pip"]
    /\ UNCHANGED <<versionCache, clock, nextCall, lastResolve, coordVars>>

\* installOrUpdateCheckovWithPip3: one pass of its loop (python3/pip3, then
\* python/pip; firstTry is pc = "pip3"). ok: nothing in the try block threw
Pip3(ok) ==
    /\ call.pc \in {"pip3", "pip"}
    /\ \E c \in {[call EXCEPT !.attempts = Append(@, call.pc)]} :
           call' = IF ok THEN returned(c, pathInstallation("pip3", "user"))
                   ELSE IF call.pc = "pip3" THEN [c EXCEPT !.pc = "pip"]
                   ELSE strategyFailed(c, "pip3")
    /\ UNCHANGED <<versionCache, clock, nextCall, lastResolve, coordVars>>

\* installOrUpdateCheckovWithPipenv
Pipenv(ok) ==
    /\ call.pc = "pipenv"
    /\ call' = IF ok THEN returned(call, pathInstallation("pipenv", "pipenv"))
               ELSE strategyFailed(call, "pipenv")
    /\ UNCHANGED <<versionCache, clock, nextCall, lastResolve, coordVars>>

\* isPipCheckovInstalledGlobally: checkov --version
GlobalProbe(found) ==
    /\ call.pc = "global"
    /\ call' = IF found THEN returned(call, pathInstallation("pip3", "checkov"))
               ELSE strategyFailed(call, "global")
    /\ UNCHANGED <<versionCache, clock, nextCall, lastResolve, coordVars>>

\* clearVersionCache(): the CLEAR_VERSION_CACHE command
ClearVersionCache ==
    /\ versionCache' = NoVersion
    /\ lastResolve' = NoResolve
    /\ UNCHANGED <<clock, call, nextCall, coordVars>>

\* time passes
ClockTick ==
    /\ clock < MaxTicks * Tick
    /\ clock' = clock + Tick
    /\ UNCHANGED <<versionCache, call, nextCall, lastResolve, coordVars>>

InstallInit ==
    /\ Init
    /\ activeEditor = "A"
    /\ MAX_CONCURRENT_SCANS = 2
    /\ cache = NoCache

InstallNext ==
    \/ \E v \in Requested : InstallOrUpdateCheckov(v)
    \/ \E o \in {"pull", "run", "ok"}, v \in Discovered, t \in BOOLEAN : Resolved(o, v, t)
    \/ \E ok \in BOOLEAN : DockerPull(ok)
    \/ \E ok \in BOOLEAN : DockerPullLatest(ok)
    \/ \E ok \in BOOLEAN : Pip3(ok)
    \/ \E ok \in BOOLEAN : Pipenv(ok)
    \/ \E found \in BOOLEAN : GlobalProbe(found)
    \/ ClearVersionCache
    \/ ClockTick

InstallSpec == InstallInit /\ [][InstallNext]_vars

\* every subprocess an install strategy awaits ends, and its callback runs
InstallFairness ==
    /\ WF_vars(\E ok \in BOOLEAN : DockerPull(ok))
    /\ WF_vars(\E ok \in BOOLEAN : DockerPullLatest(ok))
    /\ WF_vars(\E ok \in BOOLEAN : Pip3(ok))
    /\ WF_vars(\E ok \in BOOLEAN : Pipenv(ok))
    /\ WF_vars(\E found \in BOOLEAN : GlobalProbe(found))

FairInstallSpec == InstallSpec /\ InstallFairness

\* ---- runCheckovScan on its own: the data, close and cancellation events ----
\* ---- of one scanner process                                            ----
MaxChunks == 3                    \* data events explored
\* The chunks a data event delivers: "[]" the text [], "{}" a whole payload
\* object, "{" and "}" the first and second half of a payload object, "log" a
\* line that is not JSON, "esc" the colour reset sequence of docker run.
Chunks == {"[]", "{}", "{", "}", "log", "esc"}
Codes == {0, 1, 2}                \* exit codes of the close event

restVars == <<activeScanTokens, nextScan, scans, runVars, envVars, cacheVars, histVars, cacheOpVars,
              installerVars, commandVars, severityVars, diagnosticVars, displayVars, statusVars>>

\* ckv.stdout.on('data'): a chunk is kept when it starts with { or [, or when
\* something was kept before
startsWithBrace(chunk) == chunk \in {"[]", "{}", "{"}

\* faulty variant of onData: every chunk is tested, also after the first kept one
onData_each(stdout, chunk) ==
    IF startsWithBrace(chunk) THEN Append(stdout, chunk) ELSE stdout

onData(stdout, chunk) ==
    IF startsWithBrace(chunk) \/ stdout # <<>> THEN Append(stdout, chunk) ELSE stdout

\* cleanupStdout: stdout.replace(/.\[0m/g, '')
RECURSIVE cleanupStdout(_)
cleanupStdout(stdout) ==
    IF stdout = <<>> THEN <<>>
    ELSE IF Head(stdout) = "esc" THEN cleanupStdout(Tail(stdout))
    ELSE <<Head(stdout)>> \o cleanupStdout(Tail(stdout))

\* JSON.parse of the concatenated chunks: "object", "array" ([]), or "error" (it throws)
JSONparse(text) ==
    IF text \in {<<"{}">>, <<"{", "}">>} THEN "object"
    ELSE IF text = <<"[]">> THEN "array"
    ELSE "error"

\* stdout.startsWith('[]')
startsWithEmptyArray(stdout) == stdout # <<>> /\ Head(stdout) = "[]"

\* ckv.on('close'): how the promise settles
onClose(p, code) ==
    IF p.cancelled THEN [p EXCEPT !.settled = "rejected", !.code = code]
    ELSE IF code # 0 THEN [p EXCEPT !.settled = "rejected", !.code = code]
    ELSE IF startsWithEmptyArray(p.stdout)
    THEN [p EXCEPT !.settled = "resolved", !.code = code, !.value = "noFindings"]
    ELSE IF JSONparse(cleanupStdout(p.stdout)) = "error"
    THEN [p EXCEPT !.settled = "rejected", !.code = code]
    ELSE [p EXCEPT !.settled = "resolved", !.code = code, !.value = "findings"]

\* a data event of the process's standard output
StdoutData(chunk) ==
    /\ proc.settled = "pending"
    /\ Len(proc.received) < MaxChunks
    /\ proc' = [proc EXCEPT !.stdout = onData(@, chunk), !.received = Append(@, chunk)]
    /\ UNCHANGED restVars

\* the token is cancelled while the process runs
CancellationRequested ==
    /\ proc.settled = "pending"
    /\ ~proc.cancelled
    /\ proc' = [proc EXCEPT !.cancelled = TRUE]
    /\ UNCHANGED restVars

\* the close event of the process
ProcessClose(code) ==
    /\ proc.settled = "pending"
    /\ proc' = onClose(proc, code)
    /\ UNCHANGED restVars

RunnerInit ==
    /\ Init
    /\ activeEditor = "A"
    /\ MAX_CONCURRENT_SCANS = 2
    /\ cache = NoCache

RunnerNext ==
    \/ \E chunk \in Chunks : StdoutData(chunk)
    \/ CancellationRequested
    \/ \E code \in Codes : ProcessClose(code)

RunnerSpec == RunnerInit /\ [][RunnerNext]_vars

\* ---- the INSTALL_OR_UPDATE_CHECKOV_COMMAND handler around installOrUpdateCheckov: ----
\* ---- the version marker in globalState and the results cache                 ----
Released == {"3.0.0", "3.1.0"}    \* the versions the image tag latest points to, in order

otherVars == <<activeScanTokens, nextScan, scans, runVars, envVars, histVars, cacheOpVars,
               installerVars, runnerVars, severityVars, diagnosticVars, statusVars>>

\* checkovInstallation.version as the handler compares it: the run tag of a
\* docker installation, else the output v of runVersionCommand
installationVersion(inst, v) ==
    IF inst.checkovInstallationMethod = "docker" THEN inst.version ELSE v

\* the version of the scanner that installation inst runs: the concrete tag or
\* what latest points to, else what the executable reports
scannerOf(inst, v) ==
    IF inst.checkovInstallationMethod # "docker" THEN v
    ELSE IF inst.version = "latest" THEN released
    ELSE inst.version

\* a new scanner version is published under the tag latest, between two runs of
\* the command
Release ==
    /\ released = "3.0.0"
    /\ call.pc \in {"idle", "returned", "thrown"}
    /\ call.pc = "returned" => completed.id = call.id
    /\ released' = "3.1.0"
    /\ UNCHANGED <<globalState, installedScanner, completed, cacheVars, otherVars, displayVars>>

\* the handler after installOrUpdateCheckov returned: runVersionCommand for a
\* non-docker installation (v its output; ok: it did not throw), the comparison
\* with the marker, clearCache on a difference
CommandCompleted(v, ok) ==
    /\ call.pc = "returned"
    /\ completed.id # call.id
    /\ completed' = [id |-> call.id, ok |-> ok \/ call.result.checkovInstallationMethod = "docker"]
    /\ installedScanner' = scannerOf(call.result, v)
    /\ IF completed'.ok /\ globalState # installationVersion(call.result, v)
       THEN /\ globalState' = installationVersion(call.result, v)
            /\ SetCache(clearCache)
       ELSE UNCHANGED <<globalState, cacheVars>>
    /\ installation' = IF completed'.ok
                       THEN [call.result EXCEPT !.version = installationVersion(call.result, v)]
                       ELSE call.result
    /\ pulled' = IF call.result.checkovInstallationMethod # "docker" THEN "none"
                 ELSE IF call.fellBack THEN "latest" ELSE call.resolvedVersion
    /\ lastUse' = [where |-> "status", text |-> call.result.actualVersion]
    /\ UNCHANGED <<released, otherVars>>

\* handleScanResults of a scan of document A that ran while the extension was
\* ready (no command under way): its findings are stored
HandleScanResults ==
    /\ completed.ok
    /\ call.pc = "returned" /\ completed.id = call.id
    /\ SetCache(saveCachedResults(validateCacheExpiration(Stored, today), fileHash["A"], "A",
                                  [file |-> "A", content |-> fileHash["A"]]))
    /\ UNCHANGED <<commandVars, otherVars, displayVars>>

CommandInit ==
    /\ Init
    /\ activeEditor = "A"
    /\ MAX_CONCURRENT_SCANS = 2
    /\ cache = NoCache

CommandNext ==
    \/ \E v \in Requested : InstallOrUpdateCheckov(v)
    \/ \E o \in {"pull", "run", "ok"}, t \in BOOLEAN : Resolved(o, released, t)
    \/ \E ok \in BOOLEAN : DockerPull(ok)
    \/ \E ok \in BOOLEAN : DockerPullLatest(ok)
    \/ \E ok \in BOOLEAN : Pip3(ok)
    \/ \E ok \in BOOLEAN : Pipenv(ok)
    \/ \E found \in BOOLEAN : GlobalProbe(found)
    \/ ClockTick
    \/ Release
    \/ \E v \in {released, "2.5.0"}, ok \in BOOLEAN : CommandCompleted(v, ok)
    \/ HandleScanResults

CommandSpec == CommandInit /\ [][CommandNext]_vars

\* ---- severityProvider: CheckovSeverityProvider, loading of the severity mappings ----
MaxEntries == 2         \* entries of a downloaded or bundled mappings object
MaxSeverityTicks == 3   \* steps of the time of day

SeverityLevel == {"CRITICAL", "HIGH", "MEDIUM", "LOW", "INFO"}
CACHE_DURATION_HOURS == 24
SeverityTick == CACHE_DURATION_HOURS \div 2

severityRest == <<activeScanTokens, nextScan, scans, runVars, envVars, cacheVars, histVars, cacheOpVars,
                  installerVars, runnerVars, commandVars, diagnosticVars, displayVars, statusVars>>

CheckIds == {"ckv_1", "CKV_2"}
\* "#7" stands for a JSON value that is not a string
SeverityValues == {"HIGH", "LOW", "low", "Bogus", "#7"}
\* the entries of a JSON object, in order: no key twice
EntryLists ==
    UNION {{l \in [1..n -> CheckIds \X SeverityValues] :
                \A i, j \in 1..n : l[i][1] = l[j][1] => i = j} : n \in 0..MaxEntries}

\* what downloadWithRetry ends with: it throws after MAX_RETRIES attempts, or
\* returns the parsed body
Downloads ==
    {[status |-> "failed", shape |-> "ok", mappings |-> <<>>]}
    \cup {[status |-> "ok", shape |-> s, mappings |-> <<>>] :
              s \in {"notObject", "noMetadata", "badCount", "badTimestamp", "badVersion"}}
    \cup {[status |-> "ok", shape |-> "ok", mappings |-> l] : l \in EntryLists}

\* db/severity.json: not found or not JSON, or its mappings
Bundles ==
    {[readable |-> FALSE, mappings |-> <<>>]}
    \cup {[readable |-> TRUE, mappings |-> l] : l \in EntryLists}

EmptyMap == [k \in {} |-> "none"]

toUpperCase(s) ==
    CASE s = "ckv_1" -> "CKV_1"
      [] s = "low" -> "LOW"
      [] s = "Bogus" -> "BOGUS"
      [] OTHER -> s

isString(v) == v # "#7"

\* validateMappingsData, shape only
validateMappingsData_shape(data) ==
    /\ data.shape = "ok"
    /\ Len(data.mappings) # 0

\* validateMappingsData returns (TRUE) or throws (FALSE)
validateMappingsData(data) ==
    /\ data.shape = "ok"
    /\ Len(data.mappings) # 0
    /\ \A i \in 1..Len(data.mappings) : data.mappings[i][2] \in SeverityLevel

\* Map.set for every entry, in order
RECURSIVE setAll(_, _)
setAll(m, l) ==
    IF l = <<>> THEN m
    ELSE setAll([k \in DOMAIN m \cup {toUpperCase(Head(l)[1])} |->
                     IF k = toUpperCase(Head(l)[1]) THEN Head(l)[2] ELSE m[k]], Tail(l))

\* applyMappings: this.mappings after clear() and the set calls
applyMappings(l) == setAll(EmptyMap, l)

isCacheExpired(cached, now) == now > cached.expires_at

\* saveToCache; written: globalState.update did not throw
saveToCache(l, now, written) ==
    IF written THEN [data |-> l, expires_at |-> now + CACHE_DURATION_HOURS] ELSE cachedMappings

\* convertLegacyFormat: toUpperCase of a value that is not a string throws;
\* values that are no severity after the conversion are dropped
RECURSIVE convertLegacyFormat(_)
convertLegacyFormat(l) ==
    IF l = <<>> THEN [threw |-> FALSE, mappings |-> <<>>]
    ELSE IF ~isString(Head(l)[2]) THEN [threw |-> TRUE, mappings |-> <<>>]
    ELSE LET rest == convertLegacyFormat(Tail(l)) IN
         IF rest.threw THEN rest
         ELSE IF toUpperCase(Head(l)[2]) \in SeverityLevel
         THEN [threw |-> FALSE, mappings |-> <<<<Head(l)[1], toUpperCase(Head(l)[2])>>>> \o rest.mappings]
         ELSE rest

\* loadMappings up to its return or to the call of loadFallbackMappings
LoadMappings(download, written) ==
    /\ severityPc = "idle"
    /\ IF cachedMappings # NoCachedMappings /\ ~isCacheExpired(cachedMappings, severityNow)
       THEN /\ mappings' = applyMappings(cachedMappings.data)
            /\ loaded' = [NoLoad EXCEPT !.op = "load", !.source = "cache"]
            /\ UNCHANGED <<cachedMappings, severityPc>>
       ELSE IF download.status = "ok" /\ validateMappingsData(download)
       THEN /\ mappings' = applyMappings(download.mappings)
            /\ cachedMappings' = saveToCache(download.mappings, severityNow, written)
            /\ loaded' = [NoLoad EXCEPT !.op = "load", !.source = "remote"]
            /\ UNCHANGED severityPc
       ELSE /\ severityPc' = "fallback"
            /\ loaded' = [NoLoad EXCEPT !.op = "load",
                              !.failure = IF download.status = "ok" THEN "validation" ELSE "fetch"]
            /\ UNCHANGED <<mappings, cachedMappings>>
    /\ UNCHANGED <<severityNow, severityRest>>

\* loadFallbackMappings, with its catch
LoadFallbackMappings(bundle) ==
    /\ severityPc = "fallback"
    /\ severityPc' = "idle"
    /\ LET c == convertLegacyFormat(bundle.mappings) IN
       IF bundle.readable /\ ~c.threw
       THEN /\ mappings' = applyMappings(c.mappings)
            /\ loaded' = [loaded EXCEPT !.source = "bundled", !.bundled = bundle.mappings]
       ELSE /\ mappings' = EmptyMap
            /\ loaded' = [loaded EXCEPT !.source = "empty", !.bundled = bundle.mappings]
    /\ UNCHANGED <<cachedMappings, severityNow, severityRest>>

\* forceRefresh: rethrows what fetchFromGitHub throws
ForceRefresh(download, written) ==
    /\ severityPc = "idle"
    /\ IF download.status = "ok" /\ validateMappingsData(download)
       THEN /\ mappings' = applyMappings(download.mappings)
            /\ cachedMappings' = saveToCache(download.mappings, severityNow, written)
            /\ loaded' = [NoLoad EXCEPT !.op = "refresh", !.source = "remote"]
       ELSE /\ loaded' = [NoLoad EXCEPT !.op = "refresh", !.threw = TRUE,
                              !.failure = IF download.status = "ok" THEN "validation" ELSE "fetch"]
            /\ UNCHANGED <<mappings, cachedMappings>>
    /\ UNCHANGED <<severityPc, severityNow, severityRest>>

HoursPass ==
    /\ severityNow < MaxSeverityTicks * SeverityTick
    /\ severityNow' = severityNow + SeverityTick
    /\ UNCHANGED <<mappings, cachedMappings, severityPc, loaded, severityRest>>

SeverityInit ==
    /\ Init
    /\ activeEditor = "A"
    /\ MAX_CONCURRENT_SCANS = 2
    /\ cache = NoCache

SeverityNext ==
    \/ \E d \in Downloads, w \in BOOLEAN : LoadMappings(d, w)
    \/ \E b \in Bundles : LoadFallbackMappings(b)
    \/ \E d \in Downloads, w \in BOOLEAN : ForceRefresh(d, w)
    \/ HoursPass

SeveritySpec == SeverityInit /\ [][SeverityNext]_vars

\* ---- diagnostics.ts: applyDiagnostics and the severity lookup ----
FindingIds == {"ckv_1", "CKV_2", "CKV_9"}
FindingSeverities == {"none", "CRITICAL", "HIGH", "LOW"}

diagnosticRest == <<activeScanTokens, nextScan, scans, runVars, envVars, cacheVars, histVars, cacheOpVars,
                    installerVars, runnerVars, commandVars, severityVars, displayVars, statusVars>>

\* CheckovSeverityProvider.getSeverity: this.mappings.get(checkovId.toUpperCase()) || null
getSeverity(m, checkovId) ==
    IF toUpperCase(checkovId) \in DOMAIN m THEN m[toUpperCase(checkovId)] ELSE "null"

\* getSeverityForCheckId: the provider's severity, or 'UNKNOWN'
getSeverityForCheckId(m, checkId) ==
    IF getSeverity(m, checkId) # "null" THEN getSeverity(m, checkId) ELSE "UNKNOWN"

mapSeverityToVSCode(severity) ==
    CASE toUpperCase(severity) \in {"CRITICAL", "HIGH"} -> "Error"
      [] toUpperCase(severity) = "MEDIUM" -> "Warning"
      [] toUpperCase(severity) \in {"LOW", "INFO"} -> "Information"
      [] OTHER -> "Warning"

\* the severity string of applyDiagnostics: `if (!severityString)` tests the
\* string getSeverityForCheckId returned, which is never empty
severityStringOf(m, checkId, severity) ==
    LET s == getSeverityForCheckId(m, checkId) IN
    IF s = "" THEN (IF severity # "none" THEN severity ELSE "MEDIUM") ELSE s

\* applyDiagnostics for one finding
ApplyDiagnostics(checkId, severity) ==
    /\ severityPc = "idle"
    /\ diagnostic' = [checkId |-> checkId, severity |-> severity,
                      severityString |-> severityStringOf(mappings, checkId, severity),
                      vsSeverity |-> mapSeverityToVSCode(severityStringOf(mappings, checkId, severity))]
    /\ UNCHANGED <<severityVars, diagnosticRest>>

DiagnosticNext ==
    \/ \E d \in Downloads, w \in BOOLEAN : ForceRefresh(d, w)
    \/ \E id \in FindingIds, s \in FindingSeverities : ApplyDiagnostics(id, s)

DiagnosticSpec == SeverityInit /\ [][DiagnosticNext]_vars

\* ---- the uses of the installation's versions: status bar, about message, docker run ----
displayRest == <<activeScanTokens, nextScan, scans, runVars, envVars, cacheVars, histVars, cacheOpVars,
                 installerVars, runnerVars, commandVars, severityVars, diagnosticVars, statusVars>>

\* GET_INSTALLATION_DETAILS_COMMAND: a warning when checkovInstallation?.version
\* is not set, else showAboutCheckovMessage(checkovInstallation.version, method)
GetInstallationDetails ==
    /\ lastUse' = IF installation.version = "none"
                  THEN [where |-> "warning", text |-> "none"]
                  ELSE [where |-> "about", text |-> installation.version]
    /\ UNCHANGED <<installation, pulled, displayRest>>

\* runCheckovScan of a docker installation: the image of getDockerRunParams is
\* bridgecrew/checkov:${checkovInstallation.version || 'latest'}
DockerRun ==
    /\ completed.ok
    /\ call.pc = "returned" /\ completed.id = call.id
    /\ installation.checkovInstallationMethod = "docker"
    /\ lastUse' = [where |-> "run",
                   text |-> IF installation.version # "none" THEN installation.version ELSE "latest"]
    /\ UNCHANGED <<installation, pulled, displayRest>>

DisplayNext ==
    \/ \E v \in Requested : InstallOrUpdateCheckov(v)
    \/ \E o \in {"pull", "run", "ok"}, t \in BOOLEAN : Resolved(o, released, t)
    \/ \E ok \in BOOLEAN : DockerPull(ok)
    \/ \E ok \in BOOLEAN : DockerPullLatest(ok)
    \/ \E ok \in BOOLEAN : Pip3(ok)
    \/ \E ok \in BOOLEAN : Pipenv(ok)
    \/ \E found \in BOOLEAN : GlobalProbe(found)
    \/ ClockTick
    \/ \E v \in {released, "2.5.0"}, ok \in BOOLEAN : CommandCompleted(v, ok)
    \/ GetInstallationDetails
    \/ DockerRun

DisplaySpec == CommandInit /\ [][DisplayNext]_vars

\* ---- the coordinator over a session: repeated install-or-update commands ----
\* ---- and the clear command; run-scan with an explicit file uri ----
MaxInstalls == 2                  \* install-or-update commands in flight at once

\* INSTALL_OR_UPDATE_CHECKOV_COMMAND up to its first await (getCheckovVersion):
\* extensionReady = false and the status 'Updating Checkov'. The command is
\* executed by activate(), by CLEAR_VERSION_CACHE and by the user.
InstallStart ==
    /\ installing < MaxInstalls
    /\ installing' = installing + 1
    /\ extensionReady' = FALSE
    /\ statusBar' = "updating"
    /\ lastStep' = "other"
    /\ closedEmpty' = 0
    /\ notified' = "none"
    /\ UNCHANGED <<activeEditor, MAX_CONCURRENT_SCANS, checkovInstallation, fileHash, today>>
    /\ UNCHANGED <<activeScanTokens, nextScan, scans, runVars, cacheVars, lastCall, cacheOpVars,
                   installerVars, aloneVars, startedBeforeClear>>

\* CLEAR_RESULTS_CACHE: clearCache(context, logger); executed by the user, by
\* onDidChangeConfiguration and by the save of a .checkov.yaml
ClearResultsCache ==
    /\ SetCache(clearCache)
    /\ startedBeforeClear' = {k \in ScanIds : Running(k)}
    /\ lastStep' = "other"
    /\ closedEmpty' = 0
    /\ notified' = "none"
    /\ UNCHANGED <<activeScanTokens, nextScan, scans, runVars, envVars, lastCall, cacheOpVars,
                   installerVars, aloneVars, statusBar>>

SessionInit ==
    /\ Init
    /\ MAX_CONCURRENT_SCANS = 2
    /\ cache = NoCache

SessionNext ==
    \/ Next
    \/ InstallStart
    \/ ClearResultsCache

SessionSpec == SessionInit /\ [][SessionNext]_vars

\* RUN_FILE_SCAN_COMMAND executed with the uri of a file as its argument
ExplicitNext ==
    \/ Next
    \/ \E d \in Docs, r \in BOOLEAN : RunFileScanCommand(d, r)

ExplicitSpec == SessionInit /\ [][ExplicitNext]_vars

\* ---- properties ----
Tracked == Range(activeScanTokens)
Started(s) == scans[s].uri # NoUri

\* C1: in every reachable state the number of scans whose runner invocation is
\* pending or running and that are neither cancelled nor completed is at most
\* the configured maximum concurrent scan count.
C1_ActiveWithinLimit ==
    Cardinality({s \in ScanIds : (Pending(s) \/ Running(s)) /\ ~scans[s].cancelled})
        <= MAX_CONCURRENT_SCANS

\* C2: activeScanTokens holds at most one entry per document uri.
C2_OneEntryPerUri ==
    \A i, j \in 1..Len(activeScanTokens) :
        i # j => scans[activeScanTokens[i]].uri # scans[activeScanTokens[j]].uri

\* C2 case: a scan whose entry was superseded by a later scan of the same
\* document while that later scan's entry is in the set.
C2_Superseded ==
    \E n \in ScanIds, s \in Tracked :
        /\ n < s
        /\ scans[n].reason = "supersede"
        /\ scans[n].uri = scans[s].uri

\* C3: when scan s of a document is started while an earlier scan n of the same
\* document is still pending or running, n's token is cancelled before the
\* runner of s is invoked: two runners of one document are never in progress
\* with the earlier one's token not cancelled.
C3_EarlierCancelledBeforeInvoke ==
    \A n, s \in ScanIds :
        (n < s /\ Started(n) /\ scans[n].uri = scans[s].uri /\ Running(n) /\ Running(s))
            => scans[n].cancelled

\* C4: of the calls of the debounced runScan that fall into one debounce window
\* only the last one is invoked: a runner invocation is always of the scan of
\* the latest call.
C4_OnlyLastInvoked ==
    [][\A s \in ScanIds :
         (scans[s].runner = "none" /\ scans'[s].runner = "invoked") => s = lastCall]_vars

\* C4 case: a later scan of the document was invoked while an earlier one, whose
\* call was coalesced (it called runScan and was never invoked), still waits.
C4_Coalesced ==
    \E n, s \in ScanIds :
        /\ n < s
        /\ scans[n].uri = scans[s].uri
        /\ scans[n].awaiting # 0 /\ scans[n].runner = "none" /\ ~Pending(n)
        /\ scans[s].runner = "invoked"

\* C5: when the active editor changes from a supported document to an
\* unsupported file type, every scan whose runner invocation is in progress is
\* cancelled (so that its close rejects and nothing of it is applied later).
C5_FocusSwitchCancelsRunning ==
    [][(extensionReady /\ activeEditor \in Docs /\ activeEditor' = Unsupported)
          => \A s \in ScanIds : Running(s) => scans'[s].cancelled]_vars

\* C6: a scan whose timeout expired is cancelled, the close of its runner shows
\* no error notification, and afterwards the active-scan set holds no entry of it.
C6_TimeoutCleansUp ==
    /\ [](\A s \in ScanIds : scans[s].reason = "timeout" => scans[s].cancelled)
    /\ [][\A k \in ScanIds :
            (scans[k].reason = "timeout" /\ scans[k].runner = "spawned"
                /\ scans'[k].runner # "spawned") => lastStep' # "error"]_vars
    /\ \A s \in ScanIds : (scans[s].reason = "timeout") ~> (s \notin Tracked)

\* C6 case: the timeout expired while the scan's process was running, and the
\* cancellation killed the process.
C6_TimedOutRunning ==
    \E s \in ScanIds :
        scans[s].reason = "timeout" /\ scans[s].runner = "spawned" /\ scans[s].killed

\* C7: every entry added to the active-scan set is eventually removed from it.
C7_EntryEventuallyRemoved ==
    \A s \in ScanIds : (s \in Tracked) ~> (s \notin Tracked)

\* C7 case: an entry that outlives the step that added it: its startScan waits
\* for a runner that has spawned its process.
C7_EntryHeld ==
    \E s \in Tracked :
        scans[s].awaiting # 0 /\ scans[scans[s].awaiting].runner = "spawned"

\* C8: no entry of the active-scan set has a cancelled or disposed token.
C8_NoCancelledEntry ==
    \A s \in Tracked : ~scans[s].cancelled /\ ~scans[s].disposed

C10_CacheHitLeavesOthers ==
    [][lastStep' = "cacheHit"
          => \A s \in ScanIds :
                (Started(s) /\ scans[s].uri # activeEditor')
                   => /\ scans[s].cancelled \/ ~scans'[s].cancelled
                      /\ s \in Tracked => s \in Range(activeScanTokens')]_vars

\* C11: a put of (h, p, f) on a cache in which get returns no entry for (h, p),
\* followed immediately by get(h, p), returns an entry whose findings equal f.
C11_PutThenGet ==
    (lastOp.op = "get" /\ lastOp.fresh)
        => (lastOp.result # NoEntry /\ lastOp.result.results = lastOp.f)

\* C11 case: the round trip when the put overwrote a slot of a full buffer.
C11_RoundTripFull ==
    /\ lastOp.op = "get" /\ lastOp.fresh
    /\ Len(elementsOf(lastOp.p)) = maxCacheSizePerFile
    /\ cache[lastOp.p].oldest # 0

\* the hashes kept for path p, and the earliest inserted of them (hashes are
\* numbered in the order of their first put)
hashesOf(p) == {elementsOf(p)[i].fileHash : i \in 1..Len(elementsOf(p))}
earliestOf(p) == CHOOSE h \in hashesOf(p) : \A g \in hashesOf(p) : h <= g

\* C12: a path never keeps more than maxCacheSizePerFile = 10 entries, and a put
\* of a new hash into a full buffer keeps exactly 10, evicting exactly the entry
\* inserted earliest among those kept.
C12_CapacityFifo ==
    /\ [](\A p \in Docs : Len(elementsOf(p)) <= maxCacheSizePerFile)
    /\ [][\A p \in Docs :
            (/\ lastOp'.op = "put" /\ lastOp'.fresh /\ lastOp'.p = p
             /\ cacheDate = today
             /\ Len(elementsOf(p)) = maxCacheSizePerFile)
            => /\ Len(cache'[p].elements) = maxCacheSizePerFile
               /\ {cache'[p].elements[i].fileHash : i \in 1..maxCacheSizePerFile}
                     = (hashesOf(p) \ {earliestOf(p)}) \cup {lastOp'.h}]_vars

\* C12 case: an eleventh distinct hash was put for a path and overwrote a slot.
C12_Overflowed ==
    /\ lastOp.op = "put" /\ lastOp.fresh
    /\ Len(elementsOf(lastOp.p)) = maxCacheSizePerFile
    /\ cache[lastOp.p].oldest = 1

\* C13: every get and put leaves the stamp at today and, when the stored stamp
\* was another day's, keeps nothing of what was stored (a put keeps only its own
\* entry); get returns no entry that was stored on another calendar day.
C13_DailyWipe ==
    /\ [][lastOp'.op \in {"get", "put"}
            => /\ cacheDate' = today
               /\ cacheDate # today
                    => \A p \in Docs :
                          {cache'[p].elements[i].fileHash : i \in 1..Len(cache'[p].elements)}
                             \subseteq (IF lastOp'.op = "put" /\ lastOp'.p = p
                                        THEN {lastOp'.h} ELSE {})]_vars
    /\ [](\A h \in 1..MaxPuts, p \in Docs :
            LET e == cachedEntry(Stored, today, h, p)
            IN e # NoEntry => e.results.day = today)

\* C13 case: a get on a later day than the one the entries were stored on.
C13_GetAfterRollover ==
    lastOp.op = "get" /\ lastOp.wiped /\ lastOp.result = NoEntry

\* C14: a put of (h, p, f) when get returns an entry for (h, p) changes nothing
\* of the cache (entries, their order, the write cursor, the stamp), also when
\* f differs from the stored findings; and any put applied twice equals the put
\* applied once.
C14_PutExistingNoOp ==
    /\ [][(lastOp'.op = "put" /\ ~lastOp'.fresh)
            => (cache' = cache /\ cacheDate' = cacheDate)]_vars
    /\ [](\A h \in OldHashes \cup {nextHash}, p \in Docs :
            \A f \in {[id |-> h, day |-> today], [id |-> 0, day |-> today]} :
                put(put(Stored, today, h, p, f), today, h, p, f) = put(Stored, today, h, p, f))

\* C14 case: a repeated put with other findings into a buffer that is full and
\* has wrapped.
C14_RepeatedPut ==
    /\ lastOp.op = "put" /\ ~lastOp.fresh /\ lastOp.f.id # lastOp.h
    /\ Len(elementsOf(lastOp.p)) = maxCacheSizePerFile
    /\ cache[lastOp.p].oldest # 0

\* C15: after clear, get returns no entry for any hash and path, whatever the
\* cache held before, and get returns an entry for (h, p) again only after a
\* put of (h, p).
C15_ClearRemovesAll ==
    /\ [](lastOp.op = "clear"
            => \A h \in 1..MaxPuts, p \in Docs : cachedEntry(Stored, today, h, p) = NoEntry)
    /\ [][\/ <<cache, cacheDate, today>>' = <<cache, cacheDate, today>>
          \/ \A h \in 1..MaxPuts, p \in Docs :
                \/ lastOp'.op = "put" /\ lastOp'.h = h /\ lastOp'.p = p
                \/ cachedEntry(Stored, today, h, p)' = NoEntry
                \/ cachedEntry(Stored, today, h, p) # NoEntry]_vars

\* C15 case: a clear of a cache that held entries.
C15_ClearedEntries ==
    lastOp.op = "clear" /\ lastOp.wiped

\* C16: when the process of a scan that was not cancelled exits with code 0 and
\* the output [], the result is shown as passed (zero findings, no error) and
\* the cache then returns an entry with empty findings for the scanned path and
\* the hash of the file (of the content the process read, or of the content on
\* disk when the result is handled).
C16_EmptyOutputStored ==
    [][\A k \in ScanIds :
        (closedEmpty' = k /\ ~scans[k].cancelled)
        => /\ lastStep' = "passed"
           /\ \E h \in {scans[k].scanned, fileHash[scans[k].uri]}, p \in {scans[k].uri} :
                LET e == cachedEntry(Stored, today, h, p)' IN
                e # NoEntry /\ e.results = noFailedChecks]_vars

\* the strategy an installation comes from
strategyOf(inst) ==
    IF inst.checkovInstallationMethod = "pip3" /\ inst.checkovPath = "checkov" THEN "global"
    ELSE inst.checkovInstallationMethod

\* C17: the strategies of a call are started in the order docker, pip3, pipenv,
\* global probe, each only after all earlier ones have failed; a call that
\* returned has the installation of the strategy started last, which is the
\* only one that did not fail; a call throws exactly when all four have failed.
C17_StrategyOrder ==
    LET n == Len(call.tried) IN
    /\ n <= Len(strategies)
    /\ call.tried = SubSeq(strategies, 1, n)
    /\ {call.tried[i] : i \in 1..(n - 1)} \subseteq call.failed
    /\ call.failed \subseteq {call.tried[i] : i \in 1..n}
    /\ call.pc = "returned" => /\ call.result # NoInstallation
                               /\ strategyOf(call.result) = call.tried[n]
                               /\ call.tried[n] \notin call.failed
    /\ call.pc # "returned" => call.result = NoInstallation
    /\ call.pc = "thrown" <=> call.failed = {strategies[i] : i \in 1..Len(strategies)}

\* C17 cases: a call returned the pipenv installation after docker and pip3
\* failed; a call threw.
C17_ThirdStrategyReturned ==
    /\ call.pc = "returned"
    /\ call.tried = <<"docker", "pip3", "pipenv">>
    /\ call.result.checkovInstallationMethod = "pipenv"

\* C18: for a requested version other than "latest", resolution yields
\* version = resolvedVersion = requested, issues no network or subprocess call,
\* and neither reads nor writes the version cache, whatever the cache holds.
C18_ConcreteVersionDirect ==
    /\ [](call.requested \notin {"latest", "none"}
            => /\ call.pc # "resolving"
               /\ call.version = call.requested
               /\ call.resolvedVersion = call.requested
               /\ call.execs = 0
               /\ ~call.cacheRead
               /\ ~call.cacheWritten)
    /\ [][(call'.id # call.id /\ call'.requested # "latest")
            => (versionCache' = versionCache /\ lastResolve' = lastResolve)]_vars

\* C18 case: a concrete version was requested while the version cache held a
\* fresh entry for "latest".
C18_ConcreteWhileCached ==
    /\ call.requested = "2.5.0"
    /\ call.pc = "pull"
    /\ versionCache # NoVersion
    /\ clock - versionCache.timestamp < VERSION_CACHE_TTL

\* C19: when a request for "latest" issues a network resolution and an earlier
\* request issued one too, with no clearVersionCache() since, the two requests
\* are at least VERSION_CACHE_TTL (one hour) apart.
C19_OneResolutionPerHour ==
    [][(/\ lastResolve # NoResolve
        /\ lastResolve' # NoResolve
        /\ lastResolve'.call # lastResolve.call)
       => lastResolve'.time - lastResolve.time >= VERSION_CACHE_TTL]_vars

\* C20: when the docker pull of a concrete resolved tag V failed and the
\* retried pull of latest succeeded, the call has returned (it did not fail) the
\* installation with method docker, run tag "latest" and display version V.
C20_FallbackKeepsVersion ==
    /\ call.pc = "fallback" => call.resolvedVersion # "latest"
    /\ call.fellBack
        => /\ call.pc = "returned"
           /\ call.failed = {}
           /\ call.resolvedVersion # "latest"
           /\ call.result.checkovInstallationMethod = "docker"
           /\ call.result.version = "latest"
           /\ call.result.actualVersion = call.resolvedVersion

\* C20 case: "latest" was requested, resolved to the tag 3.0.0, the pull of
\* 3.0.0 failed and the pull of latest succeeded.
C20_FellBackFromDiscovered ==
    /\ call.fellBack
    /\ call.requested = "latest"
    /\ call.resolvedVersion = "3.0.0"

\* C21: when the pull of the latest image or the query of its version fails
\* during the resolution of "latest", the resolution yields version "latest"
\* and resolvedVersion "latest", the call goes on to the docker pull (nothing is
\* thrown), and versionCache is left as it was.
C21_ResolutionFailureFallsBack ==
    [][(call.pc = "resolving" /\ call'.pc # "resolving" /\ call'.execs < 3)
       => /\ call'.pc = "pull"
          /\ call'.version = "latest"
          /\ call'.resolvedVersion = "latest"
          /\ call'.failed = {}
          /\ ~call'.cacheWritten
          /\ versionCache' = versionCache]_vars

\* C21 case: the query of the version failed while versionCache held an entry
\* older than the TTL; the entry is still there.
C21_FailedOverStaleEntry ==
    /\ call.pc = "pull"
    /\ call.requested = "latest"
    /\ call.execs = 2
    /\ versionCache # NoVersion
    /\ call.now - versionCache.timestamp >= VERSION_CACHE_TTL

\* C22: a failed pull of a resolved tag other than "latest" is followed by one
\* pull of latest, and when the docker strategy then returns (with the
\* installation, or with null so that pip3 starts) versionCache is empty.
C22_FallbackInvalidatesCache ==
    [][/\ (call.pc = "pull" /\ call'.pc # "pull" /\ call.resolvedVersion # "latest")
            => call'.pc \in {"returned", "fallback"}
       /\ (call.pc = "fallback" /\ call'.pc # "fallback")
            => /\ call'.pc \in {"returned", "pip3"}
               /\ versionCache' = NoVersion]_vars

\* C23: a request for "latest" reuses the versionCache entry exactly when the
\* entry is present and less than VERSION_CACHE_TTL old; otherwise (no entry,
\* e.g. after clearVersionCache(), or an entry one hour old or older) it issues
\* a fresh resolution. clearVersionCache() empties the slot.
C23_ReuseIffYoung ==
    [][/\ (call'.id # call.id /\ call'.requested = "latest")
            => LET young == /\ versionCache # NoVersion
                            /\ clock - versionCache.timestamp < VERSION_CACHE_TTL IN
               /\ young => /\ call'.pc = "pull"
                           /\ call'.version = versionCache.version
                           /\ call'.resolvedVersion = versionCache.resolvedVersion
                           /\ call'.execs = 0
                           /\ lastResolve' = lastResolve
               /\ ~young => /\ call'.pc = "resolving"
                            /\ call'.execs = 1
                            /\ lastResolve' = [time |-> clock, call |-> call'.id]
       /\ (lastResolve # NoResolve /\ lastResolve' = NoResolve) => versionCache' = NoVersion]_vars

\* C23 case: a request for "latest" found an entry exactly one hour old and
\* issued a fresh resolution.
C23_ExpiredAtOneHour ==
    /\ call.pc = "resolving"
    /\ versionCache # NoVersion
    /\ call.now - versionCache.timestamp = VERSION_CACHE_TTL

\* C24: a settled runCheckovScan promise is rejected exactly when the exit code
\* was not 0, or the token was cancelled, or the buffered output (colour
\* sequences stripped) is neither a parseable payload nor the empty array.
C24_RejectsExactlyOnFailure ==
    proc.settled # "pending"
    => (proc.settled = "rejected"
        <=> \/ proc.code # 0
            \/ proc.cancelled
            \/ JSONparse(cleanupStdout(proc.stdout)) = "error")

\* C25: the close of the process of a scan whose token is cancelled shows no
\* error status and no error notification; the failure of a scan whose token is
\* not cancelled shows the error notification unless it is suppressed by
\* configuration; the notification is shown by no other step.
C25_CancellationSilent ==
    /\ [][\A k \in ScanIds :
            (scans[k].runner = "spawned" /\ scans'[k].runner # "spawned")
            => /\ scans[k].cancelled => (lastStep' = "cancelled" /\ notified' = "none")
               /\ (~scans[k].cancelled /\ lastStep' = "error")
                    => notified' \in {"shown", "suppressed"}]_vars
    /\ [](notified # "none" => lastStep = "error")

\* C25 case: a scan whose token was not cancelled failed while error messages
\* were suppressed by configuration.
C25_FailureSuppressed ==
    notified = "suppressed" /\ lastStep = "error"

\* C26: when the install command ran to the end of its try block and the
\* scanner it installed has another version than the scanner installed before,
\* both keys of the results cache are removed and the marker in globalState is
\* the version (or run tag) of the new installation.
C26_VersionChangeClearsCache ==
    [][(completed'.id # completed.id /\ completed'.ok /\ installedScanner' # installedScanner)
       => /\ cache' = NoCache
          /\ cacheDate' = 0
          /\ globalState' \in {installedScanner', "latest"}]_vars

\* C27: a load of the severity mappings never throws; when the download or its
\* validation failed, the load ends with the entries of the bundled file in
\* memory (its values in upper case, those that are no severity left out) or
\* with no entry at all; and every value in the in-memory mapping is one of
\* CRITICAL, HIGH, MEDIUM, LOW, INFO.
C27_LoadNeverFails ==
    /\ loaded.op = "load" => ~loaded.threw
    /\ \A k \in DOMAIN mappings : mappings[k] \in SeverityLevel
    /\ (loaded.op = "load" /\ loaded.failure # "none" /\ severityPc = "idle") =>
          \/ loaded.source = "empty" /\ mappings = EmptyMap
          \/ /\ loaded.source = "bundled"
             /\ \A k \in DOMAIN mappings :
                    \E i \in 1..Len(loaded.bundled) :
                        /\ toUpperCase(loaded.bundled[i][1]) = k
                        /\ toUpperCase(loaded.bundled[i][2]) = mappings[k]
             /\ \A i \in 1..Len(loaded.bundled) :
                    toUpperCase(loaded.bundled[i][2]) \in SeverityLevel
                        => toUpperCase(loaded.bundled[i][1]) \in DOMAIN mappings

\* a download that failed validation was replaced by the bundled file, whose
\* lower-case value was converted
C27_BundledAfterInvalidDownload ==
    /\ loaded.op = "load" /\ loaded.failure = "validation" /\ loaded.source = "bundled"
    /\ severityPc = "idle"
    /\ \E i \in 1..Len(loaded.bundled) : loaded.bundled[i][2] = "low"
    /\ \E k \in DOMAIN mappings : mappings[k] = "LOW"

\* C28: the user-local pip strategy makes at most two passes, the first with
\* python3/pip3 and the second with python/pip; a pass that succeeds returns the
\* installation at once, the strategy reports failure only after the second
\* pass failed, and a call that entered the strategy always leaves it.
C28_PipTwoAttempts ==
    /\ [](/\ call.attempts \in {<<>>, <<"pip3">>, <<"pip3", "pip">>}
          /\ call.pc = "pip3" => call.attempts = <<>>
          /\ call.pc = "pip" => call.attempts = <<"pip3">>
          /\ "pip3" \in call.failed => call.attempts = <<"pip3", "pip">>)
    /\ [][Len(call'.attempts) = Len(call.attempts) + 1 =>
              \/ call'.pc = "returned" /\ call'.result.checkovPath = "user"
              \/ call'.pc = "pip" /\ call.pc = "pip3"
              \/ "pip3" \in call'.failed /\ call.pc = "pip"]_vars
    /\ (call.pc \in {"pip3", "pip"} ~> call.pc \notin {"pip3", "pip"})

\* the retry with python/pip succeeded after python3/pip3 had failed
C28_SecondAttemptReturned ==
    /\ call.pc = "returned"
    /\ call.attempts = <<"pip3", "pip">>
    /\ call.result.checkovPath = "user"

\* C29: in every state, each scan whose runner invocation is pending in the
\* debounce or in progress, and whose token is not cancelled, has its entry in
\* activeScanTokens.
C29_InFlightHasEntry ==
    \A k \in ScanIds :
        ((Pending(k) \/ Running(k)) /\ ~scans[k].cancelled)
        => \E i \in 1..Len(activeScanTokens) : activeScanTokens[i] = k

\* C30: the close of the process of a scan whose token is already cancelled,
\* whatever its exit code and output, applies no diagnostics, shows neither the
\* passed nor the failed-checks status and leaves both keys of the results
\* cache as they are.
C30_CancelledNeverActs ==
    [][\A k \in ScanIds :
          (scans[k].runner = "spawned" /\ scans'[k].runner = "closed" /\ scans[k].cancelled)
          => /\ lastStep' \notin {"applied", "passed", "cacheHit"}
             /\ cache' = cache
             /\ cacheDate' = cacheDate]_vars

\* C30 case: the process of a cancelled scan was not killed (the token source
\* was disposed before it was cancelled), ran to its end and closed; the catch
\* of runScan returned silently.
C30_LateResultDropped ==
    /\ lastStep = "cancelled"
    /\ \E k \in ScanIds :
          /\ scans[k].runner = "closed" /\ scans[k].cancelled /\ ~scans[k].killed
          /\ \A j \in ScanIds \ {k} : ~(scans[j].runner = "closed" /\ scans[j].cancelled)

\* C31: the output the runner holds is the chunks received from the first one
\* that starts with { or [ onward, in order: the chunks before it are
\* discarded and none after it is, whatever it starts with.
C31_BufferFromFirstBrace ==
    LET r == proc.received
        first == {i \in 1..Len(r) : startsWithBrace(r[i]) /\ \A j \in 1..(i - 1) : ~startsWithBrace(r[j])}
    IN  IF first = {} THEN proc.stdout = <<>>
        ELSE \A i \in first : proc.stdout = SubSeq(r, i, Len(r))

\* C31 case: a log line came before the payload and was dropped; a chunk that
\* does not start with { or [ came after its start and was kept.
C31_KeptAfterStart ==
    /\ Len(proc.received) = 3
    /\ ~startsWithBrace(proc.received[1])
    /\ startsWithBrace(proc.received[2])
    /\ ~startsWithBrace(proc.received[3])
    /\ Len(proc.stdout) = 2

\* C32: the severity of a diagnostic is the mapping's value when the mapping
\* has an entry for the finding's check id; otherwise it is the finding's own
\* severity when it has one, and MEDIUM when it has none.
C32_SeverityFallback ==
    diagnostic # NoDiagnostic =>
        diagnostic.severityString =
            IF toUpperCase(diagnostic.checkId) \in DOMAIN mappings
            THEN mappings[toUpperCase(diagnostic.checkId)]
            ELSE IF diagnostic.severity # "none" THEN diagnostic.severity
            ELSE "MEDIUM"

\* C33: for a docker installation the image tag of a scan run is the tag that
\* was pulled, and the version shown to the user, in the status bar item and in
\* the message of the installation details command, is the display version
\* (actualVersion), not the tag.
C33_TagRunsVersionShows ==
    installation.checkovInstallationMethod = "docker" =>
        /\ lastUse.where = "run" => lastUse.text = pulled
        /\ lastUse.where \in {"status", "about"} => lastUse.text = installation.actualVersion

\* C34: the debounce is per document: the pending invocation of a scan is given
\* up only when it is invoked, when its token is cancelled, or when a later
\* trigger of the same document takes its place; a trigger of another document
\* does not take it.
C34_DebouncePerDocument ==
    [][\A k \in ScanIds :
          (Pending(k) /\ ~(debPending' /\ debArgs' = k))
          => \/ scans'[k].runner = "invoked"
             \/ scans'[k].cancelled
             \/ debPending' /\ scans'[debArgs'].uri = scans[k].uri]_vars

\* C35: an entry leaves activeScanTokens only through the completion of its own
\* scan (its startScan stopped awaiting) or through a cancellation of its own
\* token: the cleanup of another scan of the same document does not remove it.
C35_EntryRemovedByOwner ==
    [][\A e \in Range(activeScanTokens) \ Range(activeScanTokens') :
          scans'[e].awaiting = 0 \/ scans'[e].cancelled]_vars

\* C36: every entry of the results cache holds, under hash H, findings of a scan
\* that read the content with hash H (no findings only for a content the
\* scanner finds nothing in).
C36_EntryMatchesContent ==
    \A p \in Docs : \A i \in 1..Len(elementsOf(p)) :
        LET e == elementsOf(p)[i] IN
        IF e.results = noFailedChecks THEN e.fileHash \in Clean
        ELSE e.results.content = e.fileHash

\* C37: the close of a runner invocation that started before the latest clear
\* of the results cache inserts no findings into the cache.
C37_NoInsertAfterClear ==
    [][\A k \in startedBeforeClear :
          (scans[k].runner = "spawned" /\ scans'[k].runner # "spawned")
          => \A p \in Editors : Range(elementsOf(p)') \subseteq Range(elementsOf(p))]_vars

\* C38: extensionReady is true only when no install-or-update command is in flight.
C38_ReadyMeansNoInstall == extensionReady => installing = 0

\* C39: the findings stored in the results cache under the path of a file are
\* findings of that file.
C39_CachedUnderOwnPath ==
    \A p \in Editors : \A i \in 1..Len(elementsOf(p)) :
        LET e == elementsOf(p)[i] IN
        e.results # noFailedChecks => e.results.file = p

\* C40: when the status bar shows the scanning state while no scan is pending
\* or running, it eventually leaves the scanning state.
C40_LeavesScanning ==
    (statusBar = "scanning" /\ \A k \in ScanIds : ~Pending(k) /\ ~Running(k))
        ~> (statusBar # "scanning")

====
